---- MODULE Spec2Model ----
(***************************************************************************)
(* The SAD VM of SAD_VM.py: class Machine (registers, condition flag,      *)
(* return address, stack, data memory), its fifteen handlers and the       *)
(* fetch/dispatch loop of Machine.run.                                     *)
(*                                                                         *)
(* Python values are modelled as follows.                                  *)
(*   - An instruction tuple (op, a, b, ...) is the sequence <<op, a, b>>;  *)
(*     Python's rest[k] is rest[k+1] here.  Every instruction of the       *)
(*     programs below carries the operands its handler reads.              *)
(*   - Integers are Python's unbounded integers; the bounds below keep     *)
(*     every value far inside TLC's range (TLC stops on an overflow).      *)
(*   - The object None, which occurs only as a jump target, is the         *)
(*     reserved number None; no integer operand of a program equals it.    *)
(*   - 0xffff0000 and 0xffff0001 do not fit TLC's integers: they are       *)
(*     written as the 32-bit two's-complement values of the same bits.     *)
(*     The code only compares an operand for equality with them.           *)
(*   - A raised exception is a record [kind, arg]; arg is the missing key  *)
(*     of a KeyError and 0 otherwise.                                      *)
(*   - The output stream is the sequence of the code points that print    *)
(*     has written: digits and sign of a number, the characters of an      *)
(*     error message, 10 for a line break.                                 *)
(***************************************************************************)
EXTENDS Integers, Sequences, FiniteSets, TLC

VARIABLES
    program,   \* self.program: the instruction tuples, fixed by the constructor
    regs,      \* self.regs: a dict, slots 0..15 after construction
    cond,      \* self.cond
    ra,        \* self.ra
    stack,     \* self.stack
    mem,       \* self.mem: a dict, empty after construction
    out,       \* what print has written to the output stream, in order
    outcome,   \* how run stands: running, returned a value, or raised
    hist       \* history: the machine at every fetch, in order (see Snap)

vars == <<program, regs, cond, ra, stack, mem, out, outcome, hist>>

---------------------------------------------------------------------------
\* op codes
MOV == 0
MEM == 1
LIMM == 2
MATH == 3
MATHI == 4
COMP == 5
LOG == 6
CNT == 7
LOOP == 8
JMP == 9
JMPC == 10
JMPR == 11
RET == 12
INC == 13
DEC == 14
STCK == 15

\* math ops
ADD == 0
SUB == 1
MULT == 2
DIV == 3

\* mem ops
LOAD == 0
STOR == 1

\* stack ops
PUSH == 0
POP == 1

\* comparative ops
EQ == 0
NEQ == 1
LT == 2
GT == 3
LTE == 4
GTE == 5

\* accessible registers
PC == 0
R_CNT == 1
R_0 == 2
R_1 == 3
R_2 == 4
R_3 == 5
R_4 == 6
R_5 == 7
R_6 == 8
R_7 == 9
R_8 == 10
R_9 == 11

\* 0xffff0000, the numeric output address (as a 32-bit value)
IO_OUT == -65536
\* 0xffff0001, the character output address (as a 32-bit value)
IO_CHR == -65535
\* 0xff00, the input address
IO_IN == 65280
\* chr() accepts 0 .. 0x10ffff
MaxCodePoint == 1114111

\* Python's None (a jump target only)
None == -9999

---------------------------------------------------------------------------
\* Exceptions and the outcome of run

Exc(kind, arg) == [kind |-> kind, arg |-> arg]
NoExc == Exc("none", 0)

\* A dict lookup d[key] of a missing key raises KeyError(key): self.regs,
\* self.mem and self.ops are all dicts.
KeyError(key) == Exc("KeyError", key)
\* list.pop() of an empty list and a list index out of range
IndexError == Exc("IndexError", 0)
\* (mutant of ZeroDivisionError: the exception that run catches)
ZeroDivisionCaught == Exc("IndexError", 0)
\* a // 0
ZeroDivisionError == Exc("ZeroDivisionError", 0)
\* quit() raises SystemExit
SystemExit == Exc("SystemExit", 0)
ValueError == Exc("ValueError", 0)
EOFError == Exc("EOFError", 0)

Running == [kind |-> "running", arg |-> 0]
Returned(v) == [kind |-> "return", arg |-> v]

\* The keys of self.ops
ops == {MOV, MEM, LIMM, MATH, MATHI, COMP, CNT, LOOP, JMP, JMPC, JMPR, RET,
        INC, DEC, STCK}

---------------------------------------------------------------------------
\* The machine as a value: what a handler reads and writes.  exc is the
\* exception the handler raised, NoExc when it returned.

Raise(m, e) == [m EXCEPT !.exc = e]

HasReg(m, r) == r \in DOMAIN m.regs

\* self.regs[d] = v: an assignment to a dict creates the key when missing
SetReg(m, d, v) == [m EXCEPT !.regs = (d :> v) @@ @]

\* print(...): the text appended to the output stream, as code points
Emit(m, items) == [m EXCEPT !.out = @ \o items]
\* the line break that print writes after its argument
Newline == 10
\* str(n) for n >= 0: the decimal digits, most significant first
RECURSIVE Digits(_)
Digits(n) ==
    IF n < 10 THEN << 48 + n >>
    ELSE Digits(n \div 10) \o << 48 + (n % 10) >>
\* a str that drops the sign
StrUnsigned(n) == Digits(IF n < 0 THEN 0 - n ELSE n)
\* str(n): a minus sign before the digits of a negative number
Str(n) == IF n < 0 THEN << 45 >> \o Digits(0 - n) ELSE Digits(n)
\* print(n): the decimal form of n, then a line break
PrintInt(n) == Str(n) \o << Newline >>
\* print(chr(c), end=''): the character alone
PrintChr(c) == << c >>
\* "ERROR(math_op): math mode flag not found"
MathError ==
    << 69, 82, 82, 79, 82, 40, 109, 97, 116, 104, 95, 111, 112, 41, 58, 32,
       109, 97, 116, 104, 32, 109, 111, 100, 101, 32, 102, 108, 97, 103,
       32, 110, 111, 116, 32, 102, 111, 117, 110, 100 >>
\* "ERROR(mathi_op): math mode flag not found ({})".format(mode)
MathiError(mode) ==
    << 69, 82, 82, 79, 82, 40, 109, 97, 116, 104, 105, 95, 111, 112, 41,
       58, 32, 109, 97, 116, 104, 32, 109, 111, 100, 101, 32, 102, 108, 97,
       103, 32, 110, 111, 116, 32, 102, 111, 117, 110, 100, 32, 40 >>
    \o Str(mode) \o << 41 >>
\* "ERROR(comp_op): comparison mode flag not found."
CompError ==
    << 69, 82, 82, 79, 82, 40, 99, 111, 109, 112, 95, 111, 112, 41, 58, 32,
       99, 111, 109, 112, 97, 114, 105, 115, 111, 110, 32, 109, 111, 100,
       101, 32, 102, 108, 97, 103, 32, 110, 111, 116, 32, 102, 111, 117,
       110, 100, 46 >>
\* print(msg): the message, then a line break
PrintErr(msg) == msg \o << Newline >>

\* a // b for b # 0, as CPython computes it: the quotient of the magnitudes,
\* truncated, with its sign, then one less when the signs differ and the
\* division is not exact.
Abs(n) == IF n < 0 THEN -n ELSE n

\* (mutant of FloorDiv: the quotient truncated toward zero, as C's / gives it)
TruncDiv(a, b) ==
    LET qmag == Abs(a) \div Abs(b)
    IN  IF (a < 0) # (b < 0) THEN -qmag ELSE qmag

FloorDiv(a, b) ==
    LET qmag == Abs(a) \div Abs(b)
        exact == qmag * Abs(b) = Abs(a)
        differ == (a < 0) # (b < 0)
    IN  IF ~differ THEN qmag
        ELSE IF exact THEN -qmag
        ELSE -qmag - 1

mov_op(m, rest) ==
    LET dst == rest[1]
        src == rest[2]
    IN  IF ~HasReg(m, src) THEN Raise(m, KeyError(src))
        ELSE SetReg(m, dst, m.regs[src])

math_op(m, rest) ==
    LET dst == rest[1]
        src1 == rest[2]
        src2 == rest[3]
        mode == rest[4]
    IN  IF mode \notin {ADD, SUB, MULT, DIV}
        THEN Raise(Emit(m, PrintErr(MathError)), SystemExit)
        ELSE IF ~HasReg(m, src1) THEN Raise(m, KeyError(src1))
        ELSE IF ~HasReg(m, src2) THEN Raise(m, KeyError(src2))
        ELSE LET a == m.regs[src1]
                 b == m.regs[src2]
             IN  CASE mode = ADD -> SetReg(m, dst, a + b)
                   [] mode = SUB -> SetReg(m, dst, a - b)
                   [] mode = MULT -> SetReg(m, dst, a * b)
                   [] mode = DIV ->
                        IF b = 0 THEN Raise(m, ZeroDivisionError)
                        ELSE SetReg(m, dst, FloorDiv(a, b))

mathi_op(m, rest) ==
    LET dst == rest[1]
        mode == rest[2]
        imm == rest[3]
    IN  IF mode \notin {ADD, SUB, MULT, DIV}
        THEN Raise(Emit(m, PrintErr(MathiError(mode))), SystemExit)
        ELSE IF ~HasReg(m, dst) THEN Raise(m, KeyError(dst))
        ELSE LET a == m.regs[dst]
             IN  CASE mode = ADD -> SetReg(m, dst, a + imm)
                   [] mode = SUB -> SetReg(m, dst, a - imm)
                   [] mode = MULT -> SetReg(m, dst, a * imm)
                   [] mode = DIV ->
                        IF imm = 0 THEN Raise(m, ZeroDivisionError)
                        ELSE SetReg(m, dst, FloorDiv(a, imm))

\* (mutant of mem_load: an unset address reads as 0)
mem_load_zero(m, dst, src, inp) ==
    IF src = IO_IN THEN
        IF inp.kind = "int" THEN SetReg(m, dst, inp.arg)
        ELSE Raise(m, inp)
    ELSE IF ~HasReg(m, src) THEN Raise(m, KeyError(src))
    ELSE IF m.regs[src] \notin DOMAIN m.mem THEN SetReg(m, dst, 0)
    ELSE SetReg(m, dst, m.mem[m.regs[src]])

\* mem_op, mode LOAD.  inp is what int(input()) gives when it is called:
\* [kind |-> "int", arg |-> n], or the exception it raises.
mem_load(m, dst, src, inp) ==
    IF src = IO_IN THEN
        IF inp.kind = "int" THEN SetReg(m, dst, inp.arg)
        ELSE Raise(m, inp)
    ELSE IF ~HasReg(m, src) THEN Raise(m, KeyError(src))
    ELSE IF m.regs[src] \notin DOMAIN m.mem
         THEN Raise(m, KeyError(m.regs[src]))
    ELSE SetReg(m, dst, m.mem[m.regs[src]])

\* mem_op, mode STOR.  Every branch reads regs[src] first.
mem_stor(m, dst, src) ==
    IF ~HasReg(m, src) THEN Raise(m, KeyError(src))
    ELSE IF dst = IO_OUT THEN Emit(m, PrintInt(m.regs[src]))
    ELSE IF dst = IO_CHR THEN
        IF m.regs[src] = 0 THEN Emit(m, << Newline >>)
        ELSE IF m.regs[src] < 0 \/ m.regs[src] > MaxCodePoint
             THEN Raise(m, ValueError)
        ELSE Emit(m, PrintChr(m.regs[src]))
    ELSE IF ~HasReg(m, dst) THEN Raise(m, KeyError(dst))
    ELSE [m EXCEPT !.mem = (m.regs[dst] :> m.regs[src]) @@ @]

\* A mode that is neither LOAD nor STOR matches no branch: nothing happens.
mem_op(m, rest, inp) ==
    LET dst == rest[1]
        src == rest[2]
        mode == rest[3]
    IN  IF mode = LOAD THEN mem_load(m, dst, src, inp)
        ELSE IF mode = STOR THEN mem_stor(m, dst, src)
        ELSE m

limm_op(m, rest) == SetReg(m, rest[1], rest[2])

\* (mutant of jmp_op: a jump without a target is skipped)
jmp_op_skipnone(m, rest) == IF rest[1] = None THEN m ELSE SetReg(m, PC, rest[1])

jmp_op(m, rest) == SetReg(m, PC, rest[1])

\* (mutant of jmpc_op: the branch is taken when the flag is set)
jmpc_op_inverted(m, rest) == IF m.cond # 0 THEN SetReg(m, PC, rest[1]) ELSE m

\* (mutant of jmpc_op: the branch consumes the flag)
jmpc_op_consume(m, rest) ==
    IF m.cond = 0 THEN SetReg(m, PC, rest[1]) ELSE [m EXCEPT !.cond = 0]

jmpc_op(m, rest) == IF m.cond = 0 THEN SetReg(m, PC, rest[1]) ELSE m

\* (mutant of jmpr_op: the two assignments in the other order)
jmpr_op_swapped(m, rest) ==
    LET m1 == SetReg(m, PC, rest[1]) IN [m1 EXCEPT !.ra = m1.regs[PC]]

jmpr_op(m, rest) == SetReg([m EXCEPT !.ra = m.regs[PC]], PC, rest[1])

ret_op(m, rest) == SetReg(m, PC, m.ra)

\* (mutant of BoolInt: true is all ones, -1)
BoolAllOnes(b) == IF b THEN -1 ELSE 0

\* int(True) = 1, int(False) = 0
BoolInt(b) == IF b THEN 1 ELSE 0

comp_op(m, rest) ==
    LET reg1 == rest[1]
        reg2 == rest[2]
        mode == rest[3]
    IN  IF mode \notin {EQ, NEQ, LT, GT, LTE, GTE}
        THEN Raise(Emit(m, PrintErr(CompError)), SystemExit)
        ELSE IF ~HasReg(m, reg1) THEN Raise(m, KeyError(reg1))
        ELSE IF ~HasReg(m, reg2) THEN Raise(m, KeyError(reg2))
        ELSE LET a == m.regs[reg1]
                 b == m.regs[reg2]
             IN  CASE mode = EQ -> [m EXCEPT !.cond = BoolInt(a = b)]
                   [] mode = NEQ -> [m EXCEPT !.cond = BoolInt(a # b)]
                   [] mode = LT -> [m EXCEPT !.cond = BoolInt(a < b)]
                   [] mode = GT -> [m EXCEPT !.cond = BoolInt(a > b)]
                   [] mode = LTE -> [m EXCEPT !.cond = BoolInt(a <= b)]
                   [] mode = GTE -> [m EXCEPT !.cond = BoolInt(a >= b)]

cnt_op(m, rest) == SetReg(m, R_CNT, rest[1])

\* (mutant of loop_op: the count is tested before it is decremented)
loop_op_testfirst(m, rest) ==
    LET m1 == SetReg(m, R_CNT, m.regs[R_CNT] - 1)
    IN  IF m.regs[R_CNT] # 0 THEN SetReg(m1, PC, rest[1]) ELSE m1

loop_op(m, rest) ==
    LET m1 == SetReg(m, R_CNT, m.regs[R_CNT] - 1)
    IN  IF m1.regs[R_CNT] # 0 THEN SetReg(m1, PC, rest[1]) ELSE m1

inc_op(m, rest) ==
    IF ~HasReg(m, rest[1]) THEN Raise(m, KeyError(rest[1]))
    ELSE SetReg(m, rest[1], m.regs[rest[1]] + 1)

dec_op(m, rest) ==
    IF ~HasReg(m, rest[1]) THEN Raise(m, KeyError(rest[1]))
    ELSE SetReg(m, rest[1], m.regs[rest[1]] - 1)

\* list.pop(): the last element, removed
\* (mutant of PopValue: the first element, as list.pop(0) gives it)
PopFirst(s) == s[1]

PopValue(s) == s[Len(s)]
PopRest(s) == SubSeq(s, 1, Len(s) - 1)

stck_op(m, rest) ==
    LET reg == rest[1]
        mode == rest[2]
    IN  IF mode = PUSH THEN
            IF ~HasReg(m, reg) THEN Raise(m, KeyError(reg))
            ELSE [m EXCEPT !.stack = Append(@, m.regs[reg])]
        ELSE IF mode = POP THEN
            IF m.stack = << >> THEN Raise(m, IndexError)
            ELSE SetReg([m EXCEPT !.stack = PopRest(@)], reg, PopValue(m.stack))
        ELSE m

---------------------------------------------------------------------------
\* Bounds of the model

\* at most MaxSteps instructions are fetched in one run
MaxSteps == 12
\* a general program is a setup followed by 1..MaxLen pool instructions
MaxLen == 2

---------------------------------------------------------------------------
\* Programs.  A register index outside 0..15, a mode and an op code that the
\* machine does not define, and a jump target past the end of every program:
BadReg == 16
BadMode == 7
BadOp == 16
FarTarget == 99

Pool ==
    { <<MOV, R_0, PC>>, <<MOV, R_0, BadReg>>,
      <<MEM, R_1, R_0, LOAD>>, <<MEM, R_1, R_0, STOR>>,
      <<MEM, IO_OUT, R_0, STOR>>, <<MEM, IO_CHR, R_1, STOR>>,
      <<MEM, R_1, IO_IN, LOAD>>, <<MEM, R_0, R_1, BadMode>>,
      <<LIMM, R_0, 2>>, <<LIMM, BadReg, 1>>, <<LIMM, PC, -2>>,
      <<MATH, R_1, R_0, R_1, ADD>>, <<MATH, R_1, R_0, R_1, DIV>>,
      <<MATH, R_1, R_0, R_1, BadMode>>,
      <<MATHI, R_0, SUB, 2>>, <<MATHI, R_0, DIV, 0>>, <<MATHI, R_0, BadMode, 1>>,
      <<COMP, R_0, R_1, EQ>>, <<COMP, R_0, R_1, LT>>, <<COMP, R_0, R_1, BadMode>>,
      <<LOG>>, <<BadOp>>,
      <<CNT, 2>>,
      <<LOOP, 0>>, <<LOOP, None>>,
      <<JMP, -1>>, <<JMP, FarTarget>>, <<JMP, None>>,
      <<JMPC, 0>>, <<JMPC, None>>,
      <<JMPR, 3>>, <<JMPR, None>>,
      <<RET>>,
      <<INC, R_0>>, <<DEC, R_1>>,
      <<STCK, R_0, PUSH>>, <<STCK, R_1, POP>>, <<STCK, R_0, BadMode>> }

\* What a general program starts with: nothing, or two instructions that give
\* the registers a content.
Setups ==
    { << >>,
      << <<LIMM, R_0, 3>>, <<LIMM, R_1, -2>> >> }

Bodies == UNION { [1..n -> Pool] : n \in 1..MaxLen }

Programs == { s \o b : s \in Setups, b \in Bodies }

\* What int(input()) can give: an integer, a ValueError (a line that is no
\* integer) or an EOFError (no line left).
Inputs == { [kind |-> "int", arg |-> n] : n \in {-1, 4} } \cup {ValueError, EOFError}

---------------------------------------------------------------------------
\* Machine.__init__

InitMachine ==
    /\ cond = 0
    /\ ra = 0
    /\ regs = [i \in 0..15 |-> 0]
    /\ stack = << >>
    /\ mem = << >>
    /\ out = << >>
    /\ outcome = Running
    /\ hist = << >>

Init == program \in Programs /\ InitMachine

---------------------------------------------------------------------------
\* Machine.run

\* self.program[pc] for a list: 0 <= pc < len indexes from the start,
\* -len <= pc < 0 from the end, anything else raises IndexError.
HasInstr(pc) == -Len(program) <= pc /\ pc < Len(program)
Fetch(pc) == IF pc >= 0 THEN program[pc + 1] ELSE program[Len(program) + pc + 1]

\* What the history keeps of the machine at a fetch: pc is the value of
\* regs[PC] the instruction is fetched with.
Snap == [pc |-> regs[PC], regs |-> regs, cond |-> cond, stack |-> stack]

instruct == Fetch(regs[PC])
rest == Tail(instruct)

\* The machine when the handler is called: PC is already incremented.
Cur ==
    [regs |-> [regs EXCEPT ![PC] = @ + 1], cond |-> cond, ra |-> ra,
     stack |-> stack, mem |-> mem, out |-> out, exc |-> NoExc]

\* How run ends when the loop body raises e: IndexError is caught and run
\* returns 0, every other exception leaves run.
RunOutcome(e) ==
    IF e = NoExc THEN Running
    ELSE IF e.kind = "IndexError" THEN Returned(0)
    ELSE e

\* The loop is entered (regs[PC] is not None) and the fetch succeeds with an
\* instruction of op code op.
Dispatch(op) ==
    /\ outcome = Running
    /\ Len(hist) < MaxSteps
    /\ regs[PC] # None
    /\ HasInstr(regs[PC])
    /\ instruct[1] = op

\* (mutant of Commit: PC is incremented once more after the handler)
CommitThenInc(m) ==
    /\ regs' = [m.regs EXCEPT ![PC] = @ + 1]
    /\ cond' = m.cond
    /\ ra' = m.ra
    /\ stack' = m.stack
    /\ mem' = m.mem
    /\ out' = m.out
    /\ outcome' = RunOutcome(m.exc)
    /\ hist' = Append(hist, Snap)
    /\ UNCHANGED program

\* The state after the handler has returned m or raised m.exc.
Commit(m) ==
    /\ regs' = m.regs
    /\ cond' = m.cond
    /\ ra' = m.ra
    /\ stack' = m.stack
    /\ mem' = m.mem
    /\ out' = m.out
    /\ outcome' = RunOutcome(m.exc)
    /\ hist' = Append(hist, Snap)
    /\ UNCHANGED program

RunMOV == Dispatch(MOV) /\ Commit(mov_op(Cur, rest))
RunMEM == Dispatch(MEM) /\ \E inp \in Inputs : Commit(mem_op(Cur, rest, inp))
RunLIMM == Dispatch(LIMM) /\ Commit(limm_op(Cur, rest))
RunMATH == Dispatch(MATH) /\ Commit(math_op(Cur, rest))
RunMATHI == Dispatch(MATHI) /\ Commit(mathi_op(Cur, rest))
RunCOMP == Dispatch(COMP) /\ Commit(comp_op(Cur, rest))
RunCNT == Dispatch(CNT) /\ Commit(cnt_op(Cur, rest))
RunLOOP == Dispatch(LOOP) /\ Commit(loop_op(Cur, rest))
RunJMP == Dispatch(JMP) /\ Commit(jmp_op(Cur, rest))
RunJMPC == Dispatch(JMPC) /\ Commit(jmpc_op(Cur, rest))
RunJMPR == Dispatch(JMPR) /\ Commit(jmpr_op(Cur, rest))
RunRET == Dispatch(RET) /\ Commit(ret_op(Cur, rest))
RunINC == Dispatch(INC) /\ Commit(inc_op(Cur, rest))
RunDEC == Dispatch(DEC) /\ Commit(dec_op(Cur, rest))
RunSTCK == Dispatch(STCK) /\ Commit(stck_op(Cur, rest))

\* self.ops[op] of an op code that is no key of self.ops: KeyError(op), after
\* the increment of PC.
RunNoHandler ==
    /\ outcome = Running
    /\ Len(hist) < MaxSteps
    /\ regs[PC] # None
    /\ HasInstr(regs[PC])
    /\ instruct[1] \notin ops
    /\ Commit(Raise(Cur, KeyError(instruct[1])))

\* self.program[pc] raises IndexError: run returns 0.
RunIndexError ==
    /\ outcome = Running
    /\ regs[PC] # None
    /\ ~HasInstr(regs[PC])
    /\ outcome' = RunOutcome(IndexError)
    /\ UNCHANGED <<program, regs, cond, ra, stack, mem, out, hist>>

\* regs[PC] is None: the while loop ends and run returns None.
RunExit ==
    /\ outcome = Running
    /\ regs[PC] = None
    /\ outcome' = Returned(None)
    /\ UNCHANGED <<program, regs, cond, ra, stack, mem, out, hist>>

Next ==
    \/ RunMOV \/ RunMEM \/ RunLIMM \/ RunMATH \/ RunMATHI \/ RunCOMP
    \/ RunCNT \/ RunLOOP \/ RunJMP \/ RunJMPC \/ RunJMPR \/ RunRET
    \/ RunINC \/ RunDEC \/ RunSTCK
    \/ RunNoHandler \/ RunIndexError \/ RunExit

Spec == Init /\ [][Next]_vars

---------------------------------------------------------------------------
\* Comparison programs: two registers are loaded, compared in every mode,
\* then (at once, or after an instruction that changes a compared register
\* but is no COMP) a JMPC follows.

\* the compared values are in -MaxVal..MaxVal
MaxVal == 1

CmpModes == {EQ, NEQ, LT, GT, LTE, GTE}
CmpMids == { << >>, << <<INC, R_0>> >>, << <<LIMM, R_1, 0>>, <<INC, R_0>> >> }
CmpTargets == {2, 5, -1, FarTarget}

CmpPrograms ==
    { << <<LIMM, R_0, a>>, <<LIMM, R_1, b>>, <<COMP, R_0, R_1, mode>> >>
        \o mid \o << <<JMPC, t>>, <<INC, R_2>>, <<INC, R_3>> >> :
      a \in -MaxVal..MaxVal, b \in -MaxVal..MaxVal, mode \in CmpModes,
      mid \in CmpMids, t \in CmpTargets }

InitCmp == program \in CmpPrograms /\ InitMachine
NextCmp == RunLIMM \/ RunCOMP \/ RunJMPC \/ RunINC \/ RunIndexError
SpecCmp == InitCmp /\ [][NextCmp]_vars

---------------------------------------------------------------------------
\* Call programs: every program of 1..MaxCallLen instructions among calls,
\* returns, a counter and a jump past the end.

MaxCallLen == 4

CallPool ==
    { <<JMPR, 1>>, <<JMPR, 3>>, <<JMPR, -1>>, <<RET>>, <<INC, R_0>>,
      <<JMP, FarTarget>> }

CallPrograms == UNION { [1..n -> CallPool] : n \in 1..MaxCallLen }

InitCall == program \in CallPrograms /\ InitMachine
NextCall == RunJMPR \/ RunRET \/ RunINC \/ RunJMP \/ RunIndexError
SpecCall == InitCall /\ [][NextCall]_vars

---------------------------------------------------------------------------
\* Loop programs: CNT n, a body of one or two instructions that neither
\* write CNT nor jump, LOOP back to the first body instruction, and one
\* instruction after the loop.

\* the count of a loop is in 1..MaxCnt
MaxCnt == 3

LoopBodyPool == { <<INC, R_0>>, <<MATHI, R_1, ADD, 2>>, <<STCK, R_0, PUSH>> }
LoopBodies ==
    { << x >> : x \in LoopBodyPool }
    \cup { << x, y >> : x \in LoopBodyPool, y \in LoopBodyPool }

LoopPrograms ==
    { << <<CNT, n>> >> \o b \o << <<LOOP, 1>>, <<INC, R_2>> >> :
      n \in 1..MaxCnt, b \in LoopBodies }

InitLoop == program \in LoopPrograms /\ InitMachine
NextLoop ==
    RunCNT \/ RunINC \/ RunMATHI \/ RunSTCK \/ RunLOOP \/ RunIndexError
SpecLoop == InitLoop /\ [][NextLoop]_vars

---------------------------------------------------------------------------
\* Stack programs: every program of 1..MaxStackLen instructions among pushes,
\* pops and an increment of the pushed register.

MaxStackLen == 5

StackPool ==
    { <<INC, R_0>>, <<STCK, R_0, PUSH>>, <<STCK, R_1, POP>>, <<STCK, R_0, POP>> }

StackPrograms == UNION { [1..n -> StackPool] : n \in 1..MaxStackLen }

InitStack == program \in StackPrograms /\ InitMachine
NextStack == RunINC \/ RunSTCK \/ RunIndexError
SpecStack == InitStack /\ [][NextStack]_vars

---------------------------------------------------------------------------
\* Division programs: a dividend a and a divisor b, both in -MaxDiv..MaxDiv,
\* divided by MATH and by MATHI.

MaxDiv == 7

DivPrograms ==
    { << <<LIMM, R_0, a>>, <<LIMM, R_1, b>>, <<MATH, R_2, R_0, R_1, DIV>>,
         <<MATHI, R_0, DIV, b>> >> :
      a \in -MaxDiv..MaxDiv, b \in -MaxDiv..MaxDiv }
    \cup
    { << <<LIMM, R_0, a>>, <<MATHI, R_0, DIV, b>>, <<INC, R_3>> >> :
      a \in -MaxDiv..MaxDiv, b \in -MaxDiv..MaxDiv }

InitDiv == program \in DivPrograms /\ InitMachine
NextDiv == RunLIMM \/ RunMATH \/ RunMATHI \/ RunINC \/ RunIndexError
SpecDiv == InitDiv /\ [][NextDiv]_vars

---------------------------------------------------------------------------
\* What the claims speak of

\* The instruction of the k-th fetch of the history
Fetched(k) == Fetch(hist[k].pc)

\* An instruction is being executed: the loop is entered and the fetch succeeds.
Executing ==
    /\ outcome = Running
    /\ Len(hist) < MaxSteps
    /\ regs[PC] # None
    /\ HasInstr(regs[PC])

\* The machine after the k-th fetch and its handler: the next snapshot, or
\* the present state when the k-th fetch is the last one.
PcAfter(k) == IF k < Len(hist) THEN hist[k + 1].pc ELSE regs[PC]
RegsAfter(k) == IF k < Len(hist) THEN hist[k + 1].regs ELSE regs
StackAfter(k) == IF k < Len(hist) THEN hist[k + 1].stack ELSE stack

\* The value the handler of the k-th fetch reads from register r: slot 0 is
\* already incremented.
RegAt(k, r) == IF r = PC THEN hist[k].pc + 1 ELSE hist[k].regs[r]

\* The outcome of a normal halt: the fetch runs off the program.
NormalHalt == Returned(0)

\* run has stopped on an exception that reaches its caller.
Faulted == outcome.kind \notin {"running", "return"}

\* The mode operand of an instruction that has one
HasMode(ins) == ins[1] \in {MATH, MATHI, COMP, MEM, STCK}
ModeOf(ins) ==
    CASE ins[1] = MATH -> ins[5]
      [] ins[1] = MATHI -> ins[3]
      [] ins[1] = COMP -> ins[4]
      [] ins[1] = MEM -> ins[4]
      [] ins[1] = STCK -> ins[3]
ModesOf(op) ==
    CASE op \in {MATH, MATHI} -> {ADD, SUB, MULT, DIV}
      [] op = COMP -> {EQ, NEQ, LT, GT, LTE, GTE}
      [] op = MEM -> {LOAD, STOR}
      [] op = STCK -> {PUSH, POP}

---------------------------------------------------------------------------
\* C1: every fetch happens with 0 <= PC < len(program): with a PC outside
\* that range, negative values included, no instruction is fetched.
C1_FetchInRange ==
    \A k \in 1..Len(hist) : 0 <= hist[k].pc /\ hist[k].pc < Len(program)

\* C2: STCK POP on an empty stack stops the run with an error outcome that is
\* not the outcome of a normal halt.
C2_EmptyPopFaults ==
    [][ (Executing /\ instruct[1] = STCK /\ instruct[3] = POP /\ stack = << >>)
        => (outcome' # Running /\ outcome' # NormalHalt) ]_vars

\* C3: an instruction whose mode is not one of the modes of its op code stops
\* the run with a fault: no later instruction is fetched.
C3_BadModeFaults ==
    [][ (Executing /\ HasMode(instruct)
            /\ ModeOf(instruct) \notin ModesOf(instruct[1]))
        => outcome'.kind \notin {"running", "return"} ]_vars

\* C4: a MEM LOAD from a register whose value is an address that was never
\* stored to raises the missing-key error of that address, leaves every
\* register as it was when the handler was called (the destination is not
\* set to 0, and no slot is created), and nothing is fetched afterwards.
C4_UnsetLoadFaults ==
    [][ /\ (Executing /\ instruct[1] = MEM /\ instruct[4] = LOAD
                /\ instruct[3] # IO_IN /\ instruct[3] \in DOMAIN regs
                /\ Cur.regs[instruct[3]] \notin DOMAIN mem)
            => /\ outcome' = KeyError(Cur.regs[instruct[3]])
               /\ regs' = Cur.regs
               /\ mem' = mem /\ stack' = stack /\ out' = out
        /\ Faulted => UNCHANGED vars ]_vars

\* C4 witness: address -2 was stored to and address 3 never was; the load
\* from 3 has faulted and the destination R_1 still holds -2.
C4_Witness ==
    /\ outcome = KeyError(3)
    /\ Len(hist) > 0
    /\ Fetched(Len(hist)) = <<MEM, R_1, R_0, LOAD>>
    /\ regs[R_0] = 3
    /\ regs[R_1] = -2
    /\ mem = (-2 :> 3)

\* C5: an op code without a handler stops the run with an error whose kind is
\* none of: a normal halt, the unset-memory read's, the empty-stack pop's, the
\* unrecognized mode's.
C5_NoHandlerDistinct ==
    [][ (Executing /\ instruct[1] \notin ops)
        => outcome'.kind \notin
              { Running.kind, NormalHalt.kind, KeyError(0).kind,
                RunOutcome(IndexError).kind, SystemExit.kind } ]_vars

---------------------------------------------------------------------------
\* regs[regA] <mode> regs[regB], as the claim reads the six modes
Holds(mode, a, b) ==
    CASE mode = EQ -> a = b
      [] mode = NEQ -> ~(a = b)
      [] mode = LT -> b > a
      [] mode = GT -> a > b
      [] mode = LTE -> ~(a > b)
      [] mode = GTE -> ~(b > a)

\* the j-th fetch is a COMP, the k-th a JMPC, and no COMP lies between them
CompThenJmpc(j, k) ==
    /\ j < k
    /\ Fetched(j)[1] = COMP
    /\ Fetched(j)[4] \in CmpModes
    /\ Fetched(k)[1] = JMPC
    /\ \A i \in (j + 1)..(k - 1) : Fetched(i)[1] # COMP

\* C6: when COMP(regA, regB, mode) is followed by JMPC(target) with no COMP in
\* between, the fetch after the JMPC is made with PC = target when the
\* comparison was false, and with the PC that follows the JMPC when it was true.
C6_JmpcFollowsComp ==
    \A j \in 1..Len(hist), k \in 1..Len(hist) :
        CompThenJmpc(j, k) =>
            LET ins == Fetched(j)
                holds == Holds(ins[4], RegAt(j, ins[2]), RegAt(j, ins[3]))
            IN  PcAfter(k) = IF holds THEN hist[k].pc + 1 ELSE Fetched(k)[2]

\* C6 witness: 1 < 0 is false; R_0 was incremented between the COMP and the
\* JMPC (so 2 > 0 now), and the JMPC has branched to its target.
C6_Witness ==
    /\ Len(hist) = 5
    /\ Fetched(3) = <<COMP, R_0, R_1, LT>>
    /\ hist[3].regs[R_0] = 1 /\ hist[3].regs[R_1] = 0
    /\ Fetched(4) = <<INC, R_0>>
    /\ Fetched(5) = <<JMPC, FarTarget>>
    /\ regs[PC] = FarTarget

\* the fetches 1..k-1 that are a JMPR
CallsBefore(k) == { j \in 1..(k - 1) : Fetched(j)[1] = JMPR }
Max(S) == CHOOSE x \in S : \A y \in S : y <= x

---------------------------------------------------------------------------
\* The program is a loop: CNT n with n >= 1 at index 0, LOOP 1 at index
\* last, and between them a body whose instructions neither jump nor write
\* CNT or PC.
BodyInstr(ins) ==
    \/ ins[1] \in {INC, DEC, MATHI} /\ ins[2] \notin {PC, R_CNT}
    \/ ins[1] = STCK /\ ins[3] = PUSH
IsLoopAt(last) ==
    /\ last \in 2..(Len(program) - 1)
    /\ program[1][1] = CNT /\ program[1][2] >= 1
    /\ program[last + 1] = <<LOOP, 1>>
    /\ \A i \in 2..last : BodyInstr(program[i])

\* the fetches 1..k made with PC = pc
FetchesOf(pc, k) == { j \in 1..k : hist[j].pc = pc }

\* C8: with regs[CNT] = n >= 1 on entry, the body of a loop closed by
\* LOOP(first body instruction) executes exactly n times: the LOOP branches
\* back on its first n-1 executions and falls through on the n-th, when the
\* decremented count is 0.
C8_LoopRunsNTimes ==
    \A last \in 2..(Len(program) - 1) :
        IsLoopAt(last) =>
            LET n == program[1][2]
            IN  \A k \in FetchesOf(last, Len(hist)) :
                    LET done == Cardinality(FetchesOf(last, k))
                    IN  /\ done <= n
                        /\ \A i \in 1..(last - 1) :
                               Cardinality(FetchesOf(i, k)) = done
                        /\ done < n => PcAfter(k) = 1
                        /\ done = n => /\ PcAfter(k) = last + 1
                                       /\ RegsAfter(k)[R_CNT] = 0

\* C8 witness: a loop of count 3 with a two-instruction body has fallen
\* through after its third pass.
C8_Witness ==
    /\ IsLoopAt(3)
    /\ program[1][2] = 3
    /\ Cardinality(FetchesOf(3, Len(hist))) = 3
    /\ Cardinality(FetchesOf(1, Len(hist))) = 3
    /\ regs[PC] = 4
    /\ regs[R_0] = 3

---------------------------------------------------------------------------
IsPush(k) == Fetched(k)[1] = STCK /\ Fetched(k)[3] = PUSH
\* a POP that does not meet an empty stack
IsPop(k) == Fetched(k)[1] = STCK /\ Fetched(k)[3] = POP /\ hist[k].stack # << >>
Pushes(j, k) == Cardinality({ i \in j..k : IsPush(i) })
Pops(j, k) == Cardinality({ i \in j..k : IsPop(i) })

\* the push that the pop of fetch k answers: the latest push before k with as
\* many pushes as pops between it and k
Unpopped(k) ==
    { j \in 1..(k - 1) : IsPush(j) /\ Pushes(j + 1, k - 1) = Pops(j + 1, k - 1) }

\* C9: the stack is LIFO.  Each POP of a non-empty stack writes into its
\* register the value of the most recent PUSH not yet popped and removes
\* exactly that one element; k pushes followed by k pops return the pushed
\* values in reverse order and leave the stack as it was before them.
C9_StackLifo ==
    /\ \A k \in 1..Len(hist) :
          IsPop(k) =>
              /\ Unpopped(k) # {}
              /\ RegsAfter(k)[Fetched(k)[2]]
                     = RegAt(Max(Unpopped(k)), Fetched(Max(Unpopped(k)))[2])
              /\ Len(StackAfter(k)) = Len(hist[k].stack) - 1
              /\ \A i \in 1..Len(StackAfter(k)) :
                     StackAfter(k)[i] = hist[k].stack[i]
    /\ \A i \in 1..Len(hist), n \in 1..Len(hist) :
          (/\ i + 2 * n - 1 <= Len(hist)
           /\ \A d \in 0..(n - 1) : IsPush(i + d) /\ IsPop(i + n + d))
          => /\ StackAfter(i + 2 * n - 1) = hist[i].stack
             /\ \A d \in 0..(n - 1) :
                    RegsAfter(i + n + d)[Fetched(i + n + d)[2]]
                        = RegAt(i + n - 1 - d, Fetched(i + n - 1 - d)[2])

\* C9 witness: 0 and then 1 were pushed onto the empty stack and popped: the
\* first pop gave 1, the second 0, and the stack is empty again.
C9_Witness ==
    /\ Len(hist) = 5
    /\ IsPush(1) /\ hist[2].stack = <<0>>
    /\ IsPush(3) /\ RegAt(3, R_0) = 1
    /\ IsPop(4) /\ IsPop(5)
    /\ hist[4].stack = <<0, 1>>
    /\ hist[5].regs[R_1] = 1
    /\ regs[R_0] = 0
    /\ stack = << >>

---------------------------------------------------------------------------
\* q is the floor of a / b: the greatest integer with q * b <= a when b > 0,
\* and with q * b >= a when b < 0.
IsFloor(q, a, b) ==
    IF b > 0 THEN q * b <= a /\ a < (q + 1) * b
    ELSE q * b >= a /\ a > (q + 1) * b

\* C10: MATH DIV and MATHI DIV with a non-zero divisor b leave the floor of
\* a / b in the destination register, not the quotient truncated toward zero.
C10_DivIsFloor ==
    \A k \in 1..Len(hist) :
        LET ins == Fetched(k)
        IN  /\ (ins[1] = MATH /\ ins[5] = DIV /\ RegAt(k, ins[4]) # 0)
                => IsFloor(RegsAfter(k)[ins[2]], RegAt(k, ins[3]), RegAt(k, ins[4]))
            /\ (ins[1] = MATHI /\ ins[3] = DIV /\ ins[4] # 0)
                => IsFloor(RegsAfter(k)[ins[2]], RegAt(k, ins[2]), ins[4])

\* C10 witness: -7 DIV 2 by MATH and by MATHI, both -4.
C10_Witness ==
    /\ Len(hist) = 4
    /\ Fetched(3) = <<MATH, R_2, R_0, R_1, DIV>>
    /\ Fetched(4) = <<MATHI, R_0, DIV, 2>>
    /\ hist[3].regs[R_0] = -7 /\ hist[3].regs[R_1] = 2
    /\ regs[R_2] = -4
    /\ regs[R_0] = -4

---------------------------------------------------------------------------
\* Sum programs: load a and b, add them, store the sum to the numeric output
\* address and jump past the end, for all a and b in -MaxSum..MaxSum.

MaxSum == 6

SumProgram(a, b) ==
    << <<LIMM, R_0, a>>, <<LIMM, R_1, b>>, <<MATH, R_2, R_0, R_1, ADD>>,
       <<MEM, IO_OUT, R_2, STOR>>, <<JMP, FarTarget>> >>

SumPrograms == { SumProgram(a, b) : a \in -MaxSum..MaxSum, b \in -MaxSum..MaxSum }

InitSum == program \in SumPrograms /\ InitMachine
NextSum == RunLIMM \/ RunMATH \/ RunMEM \/ RunJMP \/ RunIndexError
SpecSum == InitSum /\ [][NextSum]_vars

\* Reading a decimal numeral back: the number that a sequence of digit
\* characters denotes, and whether a text is the numeral of n (digits only,
\* a minus sign exactly when n < 0, no leading zero).
IsDigit(c) == c \in 48..57

RECURSIVE DigitsValue(_)
DigitsValue(t) ==
    IF t = << >> THEN 0
    ELSE 10 * DigitsValue(SubSeq(t, 1, Len(t) - 1)) + (t[Len(t)] - 48)

IsNumeral(t, n) ==
    /\ t # << >>
    /\ \A i \in 1..Len(t) : IsDigit(t[i])
    /\ (Len(t) > 1 => t[1] # 48)
    /\ DigitsValue(t) = n

IsDecimalOf(t, n) ==
    IF n < 0
    THEN t # << >> /\ t[1] = 45 /\ IsNumeral(Tail(t), 0 - n)
    ELSE IsNumeral(t, n)

\* a text that is the decimal form of n followed by one line break
IsLineOf(t, n) ==
    /\ t # << >>
    /\ t[Len(t)] = Newline
    /\ IsDecimalOf(SubSeq(t, 1, Len(t) - 1), n)

\* C11: the sum program of a and b prints exactly the decimal form of a + b
\* and one line break, writes nothing to data memory, and halts normally
\* after its five instructions.
C11_SumProgram ==
    LET a == program[1][3]
        b == program[2][3]
    IN  /\ mem = << >>
        /\ outcome \in {Running, NormalHalt}
        /\ Len(hist) <= 5
        /\ (Len(hist) = 5 /\ outcome = Running => ~HasInstr(regs[PC]))
        /\ (Len(hist) < 4 => out = << >>)
        /\ (Len(hist) >= 4 => IsLineOf(out, a + b))
        /\ (outcome = NormalHalt => Len(hist) = 5)

\* the program of a = 5 and b = 3 has halted normally with the output "8\n"
C11_Witness ==
    /\ program = SumProgram(5, 3)
    /\ outcome = NormalHalt
    /\ out = << 56, Newline >>
    /\ mem = << >>

---------------------------------------------------------------------------
\* The instruction being executed is a MEM STOR whose first operand is the
\* address a and whose second operand is a register.
IsSentinelStor(a) ==
    /\ Executing
    /\ instruct[1] = MEM
    /\ instruct[4] = STOR
    /\ instruct[2] = a
    /\ HasReg(Cur, instruct[3])

\* what a step has appended to the output stream, if the old stream is a
\* prefix of the new one
IsAppendOnly == Len(out') >= Len(out) /\ SubSeq(out', 1, Len(out)) = out
Appended == SubSeq(out', Len(out) + 1, Len(out'))

\* C12: the output stream only grows, and a step appends to it exactly what
\* its sentinel store writes: the decimal form of regs[regB] and a line break
\* for the numeric output address, the character with code point regs[regB]
\* (a bare line break for 0) for the character output address, and nothing
\* for every other instruction.
C12_OutputIsSentinelStores ==
    [][ /\ IsAppendOnly
        /\ IF IsSentinelStor(IO_OUT)
           THEN IsLineOf(Appended, Cur.regs[instruct[3]])
           ELSE IF IsSentinelStor(IO_CHR)
           THEN Appended = IF Cur.regs[instruct[3]] = 0
                           THEN << Newline >>
                           ELSE << Cur.regs[instruct[3]] >>
           ELSE Appended = << >> ]_vars

\* The same without the two cases in which it fails: an instruction whose
\* handler prints an error message, and a character store of a negative value.
PrintsError ==
    /\ Executing
    /\ instruct[1] \in {MATH, MATHI, COMP}
    /\ ModeOf(instruct) \notin ModesOf(instruct[1])

OutputIsSentinelStoresElsewhere ==
    [][ /\ IsAppendOnly
        /\ IF IsSentinelStor(IO_OUT)
           THEN IsLineOf(Appended, Cur.regs[instruct[3]])
           ELSE IF IsSentinelStor(IO_CHR)
           THEN IF Cur.regs[instruct[3]] = 0 THEN Appended = << Newline >>
                ELSE IF Cur.regs[instruct[3]] < 0
                THEN Appended = << >> /\ outcome' = ValueError
                ELSE Appended = << Cur.regs[instruct[3]] >>
           ELSE IF PrintsError
           THEN Appended # << >> /\ outcome' = SystemExit
           ELSE Appended = << >> ]_vars

---------------------------------------------------------------------------
\* The register an instruction writes besides PC, as a set: the destination
\* operand of MOV, LIMM, MATH, MATHI, INC, DEC, MEM LOAD and STCK POP, the
\* count register for CNT and LOOP, none for the others.
DestOf(ins) ==
    CASE ins[1] \in {MOV, LIMM, MATH, MATHI, INC, DEC} -> {ins[2]}
      [] ins[1] = MEM -> IF ins[4] = LOAD THEN {ins[2]} ELSE {}
      [] ins[1] = STCK -> IF ins[3] = POP THEN {ins[2]} ELSE {}
      [] ins[1] \in {CNT, LOOP} -> {R_CNT}
      [] OTHER -> {}

\* the register slots, PC apart, that a step creates, removes or changes
ChangedRegs ==
    { r \in (DOMAIN regs \cup DOMAIN regs') \ {PC} :
        \/ r \notin DOMAIN regs
        \/ r \notin DOMAIN regs'
        \/ regs'[r] # regs[r] }

\* the addresses of data memory that a step creates, removes or changes
ChangedMem ==
    { a \in DOMAIN mem \cup DOMAIN mem' :
        \/ a \notin DOMAIN mem
        \/ a \notin DOMAIN mem'
        \/ mem'[a] # mem[a] }

\* C13: a step changes only what its op code touches: data memory only on a
\* MEM STOR to an address that is no output address, and only at regs[regA];
\* the stack only on STCK; the condition flag only on COMP; the return
\* address only on JMPR; the program never; a register other than PC only
\* if it is the destination of the instruction (CNT for CNT and LOOP).
C13_Frame ==
    [][ /\ program' = program
        /\ IF Executing
           THEN /\ ChangedMem # {} =>
                     /\ instruct[1] = MEM
                     /\ instruct[4] = STOR
                     /\ instruct[2] \notin {IO_OUT, IO_CHR}
                     /\ ChangedMem = {Cur.regs[instruct[2]]}
                /\ stack' # stack => instruct[1] = STCK
                /\ cond' # cond => instruct[1] = COMP
                /\ ra' # ra => instruct[1] = JMPR
                /\ ChangedRegs \subseteq DestOf(instruct)
           ELSE UNCHANGED <<regs, cond, ra, stack, mem>> ]_vars

\* a store and a push have each changed their part and nothing else: memory
\* holds 3 at address -2, the stack holds 3, flag and return address are 0
C13_Witness ==
    /\ Len(hist) = 4
    /\ Fetched(3) = <<MEM, R_1, R_0, STOR>>
    /\ Fetched(4) = <<STCK, R_0, PUSH>>
    /\ mem = (-2 :> 3)
    /\ stack = << 3 >>
    /\ regs[R_0] = 3
    /\ cond = 0
    /\ ra = 0

---------------------------------------------------------------------------
\* Programs about PC: every program of 1..MaxPcLen instructions among those
\* that read slot 0, write slot 0 or jump, and a few that do neither.

MaxPcLen == 2

PcPool ==
    { <<MOV, R_0, PC>>, <<MOV, PC, R_0>>, <<LIMM, PC, 1>>, <<INC, PC>>,
      <<MATH, R_0, PC, PC, ADD>>, <<MATH, PC, R_0, PC, ADD>>,
      <<STCK, PC, PUSH>>, <<STCK, PC, POP>>,
      <<JMP, 0>>, <<JMP, FarTarget>>, <<JMPC, 2>>, <<JMPR, 1>>, <<RET>>,
      <<COMP, R_0, R_1, EQ>>, <<COMP, R_0, R_1, NEQ>>,
      <<CNT, 2>>, <<LOOP, 0>>, <<INC, R_0>> }

PcPrograms == UNION { [1..n -> PcPool] : n \in 1..MaxPcLen }

InitPc == program \in PcPrograms /\ InitMachine
NextPc ==
    \/ RunMOV \/ RunLIMM \/ RunINC \/ RunMATH \/ RunSTCK \/ RunCOMP
    \/ RunJMP \/ RunJMPC \/ RunJMPR \/ RunRET \/ RunCNT \/ RunLOOP
    \/ RunIndexError
SpecPc == InitPc /\ [][NextPc]_vars

\* With i the index of the fetch (regs[PC] before the step): the value an
\* instruction should read from register r if PC is i + 1 by then.
Seen(r) == IF r = PC THEN regs[PC] + 1 ELSE regs[r]

\* The values the handler writes into slot 0, as a set: the target of a jump
\* that is taken, the saved return address for RET, and the result of an
\* instruction whose destination is slot 0.
WrittenPc(ins) ==
    CASE ins[1] \in {JMP, JMPR} -> {ins[2]}
      [] ins[1] = JMPC -> IF cond = 0 THEN {ins[2]} ELSE {}
      [] ins[1] = LOOP -> IF regs[R_CNT] - 1 # 0 THEN {ins[2]} ELSE {}
      [] ins[1] = RET -> {ra}
      [] ins[1] = LIMM /\ ins[2] = PC -> {ins[3]}
      [] ins[1] = MOV /\ ins[2] = PC -> {Seen(ins[3])}
      [] ins[1] = INC /\ ins[2] = PC -> {Seen(PC) + 1}
      [] ins[1] = MATH /\ ins[2] = PC /\ ins[5] = ADD ->
            {Seen(ins[3]) + Seen(ins[4])}
      [] ins[1] = STCK /\ ins[2] = PC /\ ins[3] = POP -> {stack[Len(stack)]}
      [] OTHER -> {}

NextIndex(ins) ==
    IF WrittenPc(ins) = {} THEN regs[PC] + 1
    ELSE CHOOSE v \in WrittenPc(ins) : TRUE

\* What the step of an instruction that reads slot 0 shows of it.
ObservesIncrementedPc(ins) ==
    /\ ins[1] = MOV /\ ins[3] = PC /\ ins[2] # PC
         => regs'[ins[2]] = regs[PC] + 1
    /\ ins[1] = JMPR => ra' = regs[PC] + 1
    /\ ins[1] = STCK /\ ins[2] = PC /\ ins[3] = PUSH
         => stack' = Append(stack, regs[PC] + 1)
    /\ ins[1] = MATH /\ ins[2] # PC /\ ins[3] = PC /\ ins[4] = PC /\ ins[5] = ADD
         => regs'[ins[2]] = 2 * (regs[PC] + 1)

\* C14: an instruction fetched at index i runs with PC = i + 1 (a read of
\* slot 0 and the return address saved by JMPR give i + 1), and the next
\* fetch is made at the value the handler wrote into slot 0, or at i + 1 if
\* it wrote none: the increment neither replaces nor adds to that value.
C14_PcProtocol ==
    [][ Executing /\ outcome' = Running =>
          /\ ObservesIncrementedPc(instruct)
          /\ regs'[PC] = NextIndex(instruct)
          /\ hist'[Len(hist')].pc = regs[PC]
          /\ (HasInstr(regs'[PC]) => instruct' = Fetch(NextIndex(instruct))) ]_vars

\* JMPR 1 fetched at index 0, then RET fetched at index 1, then RET again:
\* the return address is 1 and RET has written it into slot 0
C14_Witness ==
    /\ program = << <<JMPR, 1>>, <<RET>> >>
    /\ Len(hist) = 3
    /\ hist[2].pc = 1
    /\ hist[3].pc = 1
    /\ ra = 1
    /\ regs[PC] = 1

---------------------------------------------------------------------------
\* Loops entered with any count: CNT n for n in -MaxCnt..MaxCnt, a body of
\* one or two instructions that neither jump nor write CNT, and LOOP back to
\* the first body instruction.

AnyLoopPrograms ==
    { << <<CNT, n>> >> \o b \o << <<LOOP, 1>>, <<INC, R_2>> >> :
      n \in -MaxCnt..MaxCnt, b \in LoopBodies }

InitAnyLoop == program \in AnyLoopPrograms /\ InitMachine
SpecAnyLoop == InitAnyLoop /\ [][NextLoop]_vars

\* C15: LOOP is a bounded loop primitive: for every count on entry, positive,
\* zero or negative, the loop falls through after finitely many passes.  The
\* LOOP tests the count against 0 after taking one from it and the body
\* leaves the count alone, so this is: every execution of the LOOP that
\* branches back leaves the count nearer to 0 than it found it.
C15_LoopIsBounded ==
    [][ Executing /\ instruct[1] = LOOP /\ regs'[PC] = instruct[2]
          => Abs(regs'[R_CNT]) < Abs(regs[R_CNT]) ]_vars

\* What happens instead for a count n <= 0 on entry: the k-th execution of
\* the LOOP leaves the count n - k, which is below 0, and branches back.
NonPositiveCountNeverFallsThrough ==
    LET n == program[1][2]
        last == Len(program) - 2
    IN  n <= 0 =>
          \A k \in 1..Len(hist) :
             Fetched(k)[1] = LOOP =>
                /\ RegsAfter(k)[R_CNT] = n - Cardinality(FetchesOf(last, k))
                /\ RegsAfter(k)[R_CNT] < 0
                /\ PcAfter(k) = 1

\* and for a count n >= 1 the loop does fall through, on the n-th execution
PositiveCountFallsThrough ==
    LET n == program[1][2]
        last == Len(program) - 2
    IN  n >= 1 =>
          \A k \in 1..Len(hist) :
             Fetched(k)[1] = LOOP =>
                /\ Cardinality(FetchesOf(last, k)) <= n
                /\ (PcAfter(k) = last + 1 <=> Cardinality(FetchesOf(last, k)) = n)

---------------------------------------------------------------------------
\* C16: the register file has exactly the 16 slots 0..15 in every reachable
\* state: no instruction creates a slot outside 0..15, whatever register
\* operands it carries.
C16_SixteenSlots == DOMAIN regs = 0..15

---------------------------------------------------------------------------
\* the condition flag after the k-th fetch and its handler
CondAfter(k) == IF k < Len(hist) THEN hist[k + 1].cond ELSE cond

\* C17: the condition flag is 0 or 1 in every reachable state: it is 0 until
\* the first COMP, and every COMP of a defined mode leaves it 1 if
\* regs[regA] <mode> regs[regB] holds and 0 if it does not.
C17_CondIsBoolean ==
    /\ cond \in {0, 1}
    /\ \A k \in 1..Len(hist) :
         /\ hist[k].cond \in {0, 1}
         /\ (\A j \in 1..k : Fetched(j)[1] # COMP) => hist[k].cond = 0
         /\ Fetched(k)[1] = COMP /\ Fetched(k)[4] \in CmpModes =>
              LET ins == Fetched(k)
                  holds == Holds(ins[4], RegAt(k, ins[2]), RegAt(k, ins[3]))
              IN  CondAfter(k) = IF holds THEN 1 ELSE 0

\* -1 >= 1 is false and has left the flag 0; the JMPC branches back to the
\* COMP twice, R_0 is incremented each time, and 1 >= 1 has left the flag 1
C17_Witness ==
    /\ Len(hist) >= 9
    /\ Fetched(3) = <<COMP, R_0, R_1, GTE>>
    /\ RegAt(3, R_0) = -1 /\ RegAt(3, R_1) = 1
    /\ hist[4].cond = 0
    /\ Fetched(9) = <<COMP, R_0, R_1, GTE>>
    /\ RegAt(9, R_0) = 1 /\ RegAt(9, R_1) = 1
    /\ CondAfter(9) = 1

---------------------------------------------------------------------------
\* Runs of any length.  The same loop body as the Run actions, for every op
\* code with a handler, without the history and without its bound on the
\* number of fetches: for programs that end by themselves.

\* self.ops[op](rest)
Handle(op, m, r, inp) ==
    CASE op = MOV -> mov_op(m, r)
      [] op = MEM -> mem_op(m, r, inp)
      [] op = LIMM -> limm_op(m, r)
      [] op = MATH -> math_op(m, r)
      [] op = MATHI -> mathi_op(m, r)
      [] op = COMP -> comp_op(m, r)
      [] op = CNT -> cnt_op(m, r)
      [] op = LOOP -> loop_op(m, r)
      [] op = JMP -> jmp_op(m, r)
      [] op = JMPC -> jmpc_op(m, r)
      [] op = JMPR -> jmpr_op(m, r)
      [] op = RET -> ret_op(m, r)
      [] op = INC -> inc_op(m, r)
      [] op = DEC -> dec_op(m, r)
      [] op = STCK -> stck_op(m, r)

RunStep ==
    /\ outcome = Running
    /\ regs[PC] # None
    /\ HasInstr(regs[PC])
    /\ instruct[1] \in ops
    /\ \E inp \in Inputs :
         LET m == Handle(instruct[1], Cur, rest, inp)
         IN  /\ regs' = m.regs
             /\ cond' = m.cond
             /\ ra' = m.ra
             /\ stack' = m.stack
             /\ mem' = m.mem
             /\ out' = m.out
             /\ outcome' = RunOutcome(m.exc)
    /\ UNCHANGED <<program, hist>>

\* The sieve of Eratosthenes that the file runs: it prints the primes below
\* MAX_NUM in hexadecimal.
MAX_NUM == 1000

prog ==
    << <<CNT, MAX_NUM>>, <<LIMM, R_0, 1>>, <<MEM, R_CNT, R_0, STOR>>,
       <<LOOP, 1>>, <<LIMM, R_0, MAX_NUM>>, <<LIMM, R_1, 1>>,
       <<LIMM, R_2, 0>>, <<INC, R_1>>, <<COMP, R_1, R_0, LT>>,
       <<JMPC, None>>, <<MEM, R_3, R_1, LOAD>>, <<COMP, R_2, R_3, NEQ>>,
       <<JMPC, 7>>, <<STCK, R_1, PUSH>>, <<JMPR, 24>>,
       <<MATH, R_4, R_1, R_1, MULT>>, <<COMP, R_4, R_0, LT>>, <<JMPC, 7>>,
       <<MEM, R_4, R_2, STOR>>, <<MATH, R_4, R_4, R_1, ADD>>,
       <<COMP, R_4, R_0, LT>>, <<JMPC, 7>>, <<MEM, R_4, R_2, STOR>>,
       <<JMP, 18>>, <<LIMM, R_5, 10>>, <<LIMM, R_CNT, 0>>,
       <<LIMM, R_6, 16>>, <<STCK, R_7, POP>>, <<MATH, R_8, R_7, R_6, DIV>>,
       <<MATH, R_9, R_8, R_6, MULT>>, <<MATH, R_9, R_7, R_9, SUB>>,
       <<COMP, R_9, R_5, LT>>, <<JMPC, 35>>, <<MATHI, R_9, ADD, 48>>,
       <<JMP, 36>>, <<MATHI, R_9, ADD, 55>>, <<STCK, R_9, PUSH>>,
       <<INC, R_CNT>>, <<COMP, R_8, R_2, NEQ>>, <<JMPC, 42>>,
       <<STCK, R_8, PUSH>>, <<JMP, 27>>, <<STCK, R_9, POP>>,
       <<MEM, IO_CHR, R_9, STOR>>, <<LOOP, 42>>, <<LIMM, R_9, 0>>,
       <<MEM, IO_CHR, R_9, STOR>>, <<RET>> >>

\* Programs with a jump that has no target: a stack, a memory and an output
\* that are not empty, a count n in 0..MaxCnt, a flag that is 0 (3 = 0 is
\* false) or 1, then one of the four jumps with the target None, then an
\* instruction that must not run when the jump is taken.
NoTargetPrograms ==
    { << <<LIMM, R_0, 3>>, <<STCK, R_0, PUSH>>, <<MEM, R_0, R_0, STOR>>,
         <<MEM, IO_OUT, R_0, STOR>>, <<CNT, n>>, <<COMP, R_0, R_1, mode>>,
         <<j, None>>, <<INC, R_3>> >> :
      n \in 0..MaxCnt, mode \in {EQ, NEQ}, j \in {JMP, JMPC, LOOP, JMPR} }

InitNoTarget == program \in NoTargetPrograms \cup {prog} /\ InitMachine
NextNoTarget == RunStep \/ RunIndexError \/ RunExit
SpecNoTarget == InitNoTarget /\ [][NextNoTarget]_vars

\* the instruction being executed is a jump whose target is None
AtNoTargetJump ==
    /\ Executing
    /\ instruct[1] \in {JMP, JMPC, LOOP, JMPR}
    /\ instruct[2] = None

\* it is taken: always for JMP and JMPR, with the flag 0 for JMPC, with a
\* count that is not 0 after the decrement for LOOP
IsTaken ==
    \/ instruct[1] \in {JMP, JMPR}
    \/ instruct[1] = JMPC /\ cond = 0
    \/ instruct[1] = LOOP /\ regs[R_CNT] - 1 # 0

\* the run is over once PC is None: the next step only returns, with None,
\* and fetches nothing
StopsAtNone ==
    regs[PC] = None =>
        /\ outcome' = Returned(None)
        /\ UNCHANGED <<regs, cond, ra, stack, mem, out>>

\* C18: a taken jump whose target is None makes PC None and the run stops
\* there without a fault and without a further fetch, registers other than
\* PC, memory, stack and output unchanged; a jump to None that is not taken
\* has no effect; the jump to None at index 9 of the sieve is never taken.
C18_NoTargetJump ==
    [][ /\ AtNoTargetJump /\ IsTaken =>
              /\ regs'[PC] = None
              /\ outcome' = Running
              /\ ChangedRegs = {}
              /\ UNCHANGED <<mem, stack, out>>
        /\ AtNoTargetJump /\ ~IsTaken =>
              /\ regs'[PC] = regs[PC] + 1
              /\ outcome' = Running
              /\ ChangedRegs = {}
              /\ UNCHANGED <<mem, stack, out, cond, ra>>
        /\ StopsAtNone
        /\ program = prog /\ Executing /\ regs[PC] = 9 => regs'[PC] # None
      ]_vars

\* C18 as the code has it: LOOP takes one from the count whether it branches
\* or not, and the jump at index 9 of the sieve is how the sieve ends: it is
\* taken when the candidate in R_1 has reached MAX_NUM, and not before.
C18_NoTargetJumpAmended ==
    [][ /\ AtNoTargetJump /\ IsTaken =>
              /\ regs'[PC] = None
              /\ outcome' = Running
              /\ IF instruct[1] = LOOP
                 THEN ChangedRegs = {R_CNT} /\ regs'[R_CNT] = regs[R_CNT] - 1
                 ELSE ChangedRegs = {}
              /\ UNCHANGED <<mem, stack, out>>
        /\ AtNoTargetJump /\ ~IsTaken =>
              /\ regs'[PC] = regs[PC] + 1
              /\ outcome' = Running
              /\ IF instruct[1] = LOOP
                 THEN ChangedRegs = {R_CNT} /\ regs'[R_CNT] = 0
                 ELSE ChangedRegs = {}
              /\ UNCHANGED <<mem, stack, out, cond, ra>>
        /\ StopsAtNone
        /\ program = prog /\ Executing /\ regs[PC] = 9 =>
              /\ regs'[PC] = None <=> regs[R_1] >= MAX_NUM
              /\ regs'[PC] # None => regs'[PC] = 10
        /\ program = prog /\ outcome' # Running =>
              /\ outcome' = Returned(None)
              /\ regs[R_1] = MAX_NUM
      ]_vars

\* LOOP None with the count 2 has branched: PC is None, the count is 1, the
\* run has returned None, the INC after the LOOP has not run, and stack,
\* memory and output are as the instructions before the LOOP left them
C18_Witness ==
    /\ program[7] = <<LOOP, None>>
    /\ program[5] = <<CNT, 2>>
    /\ outcome = Returned(None)
    /\ regs[PC] = None
    /\ regs[R_CNT] = 1
    /\ regs[R_3] = 0
    /\ stack = << 3 >>
    /\ mem = (3 :> 3)
    /\ out = << 51, Newline >>

\* The sieve ends through its jump at index 9 and in no other way, having
\* printed "2" and a line break first.
SieveEndsAtIndex9 ==
    program = prog /\ outcome # Running =>
        /\ outcome = Returned(None)
        /\ regs[PC] = None
        /\ regs[R_1] = MAX_NUM
        /\ SubSeq(out, 1, 2) = << 50, Newline >>

---------------------------------------------------------------------------
\* the k-th fetch is a division by zero: MATH DIV with regs[src2] = 0, or
\* MATHI DIV with the literal 0
DividesByZero(k) ==
    LET ins == Fetched(k)
    IN  \/ ins[1] = MATH /\ ins[5] = DIV /\ RegAt(k, ins[4]) = 0
        \/ ins[1] = MATHI /\ ins[3] = DIV /\ ins[4] = 0

\* C19: a division by zero, by MATH DIV or by MATHI DIV, ends the run
\* abnormally: the destination register keeps the value it had, no later
\* instruction is fetched, and the outcome is a fault, not a normal halt.
C19_DivByZeroAborts ==
    \A k \in 1..Len(hist) :
        DividesByZero(k) =>
            /\ k = Len(hist)
            /\ regs[Fetched(k)[2]] = hist[k].regs[Fetched(k)[2]]
            /\ Faulted
            /\ outcome # NormalHalt

\* 5 DIV 0 by MATHI: R_0 still holds 5, the run has ended with the
\* ZeroDivisionError and the INC after the division has not run
C19_Witness ==
    /\ program = << <<LIMM, R_0, 5>>, <<MATHI, R_0, DIV, 0>>, <<INC, R_3>> >>
    /\ Len(hist) = 2
    /\ outcome = ZeroDivisionError
    /\ regs[R_0] = 5
    /\ regs[R_3] = 0

====
